---- MODULE Spec2Model ----
(***************************************************************************)
(* Model of handy.py: password creation from a template specification.     *)
(*                                                                         *)
(* A Python str is modelled as a sequence of one-character strings, a      *)
(* Python list as a sequence, a dict as a function.  random.choice and     *)
(* random.random are nondeterministic choices.  get_pass is followed one   *)
(* loop iteration at a time; an uncaught exception ends the call in        *)
(* pc = "raised" with err naming the exception and the function raising.   *)
(***************************************************************************)
EXTENDS Integers, Sequences, FiniteSets, TLC

VARIABLES spec, words, mapping, to_number, to_symbol, trunc,
          pc, pos, local_number, local_symbol, hand, next_hand, even,
          word_min, word_max, password, fk, err, stdout

vars == <<spec, words, mapping, to_number, to_symbol, trunc,
          pc, pos, local_number, local_symbol, hand, next_hand, even,
          word_min, word_max, password, fk, err, stdout>>

(***************************************************************************)
(* Bounds of the explored calls.                                           *)
(***************************************************************************)
\* longest generated specification string
MaxSpecLen == 2
\* largest trunc argument
MaxTrunc == 2
\* largest caller-supplied index in to_number / to_symbol
MaxIndex == 2
\* most lines load_words reads from a word file
MaxLines == 2
\* longest line of a word file, its line end not counted
MaxWordLen == 3

(***************************************************************************)
(* Python helpers.                                                         *)
(***************************************************************************)
Range(s) == {s[j] : j \in 1..Len(s)}

Find(s, c) == CHOOSE j \in 1..Len(s) : s[j] = c

ALPHABET ==
  <<"a", "b", "c", "d", "e", "f", "g", "h", "i", "j", "k", "l", "m",
    "n", "o", "p", "q", "r", "s", "t", "u", "v", "w", "x", "y", "z">>

UPPERCASE ==
  <<"A", "B", "C", "D", "E", "F", "G", "H", "I", "J", "K", "L", "M",
    "N", "O", "P", "Q", "R", "S", "T", "U", "V", "W", "X", "Y", "Z">>

DIGITS == <<"0", "1", "2", "3", "4", "5", "6", "7", "8", "9">>

\* str.upper and str.lower on one character
upper_char(c) == IF c \in Range(ALPHABET) THEN UPPERCASE[Find(ALPHABET, c)] ELSE c

lower_char(c) == IF c \in Range(UPPERCASE) THEN ALPHABET[Find(UPPERCASE, c)] ELSE c

\* str.upper
upper(s) == [j \in 1..Len(s) |-> upper_char(s[j])]

\* str.title: a cased character is upper-cased at the start and after an
\* uncased character, lower-cased after a cased one
title(s) ==
  [j \in 1..Len(s) |->
     IF j > 1 /\ s[j - 1] \in Range(ALPHABET) \cup Range(UPPERCASE)
     THEN lower_char(s[j]) ELSE upper_char(s[j])]

\* str(n) for 0 <= n <= 9
str(n) == <<DIGITS[n + 1]>>

\* zip of two strings made into a dict
dict_zip(keys, values) ==
  [c \in {keys[j] : j \in 1..Len(values)} |-> values[Find(keys, c)]]

\* A value that is a dict in one place and a str in another carries its type.
PyDict(f) == [type |-> "dict", val |-> f]

PyStr(s) == [type |-> "str", val |-> s]

\* `c in m` for a one-character c: a key of a dict, a substring of a str
py_in(c, m) ==
  IF m.type = "dict" THEN c \in DOMAIN m.val ELSE c \in Range(m.val)

\* the start of s[:stop] / s[start:] as Python clamps a slice bound
slice_bound(b, n) ==
  IF b < 0 THEN (IF b + n < 0 THEN 0 ELSE b + n) ELSE (IF b > n THEN n ELSE b)

\* s[:stop]
slice_to(s, stop) == SubSeq(s, 1, slice_bound(stop, Len(s)))

\* s[start:]
slice_from(s, start) == SubSeq(s, slice_bound(start, Len(s)) + 1, Len(s))

\* [x for x in s if x < n]
RECURSIVE keep_below(_, _)
keep_below(s, n) ==
  IF s = <<>> THEN <<>>
  ELSE (IF Head(s) < n THEN <<Head(s)>> ELSE <<>>) \o keep_below(Tail(s), n)

(***************************************************************************)
(* Constants of the module.                                                *)
(***************************************************************************)
CHARS ==
  LET left_lower  == <<"q", "w", "e", "r", "t", "a", "s", "d", "f", "g", "z", "x", "c", "v", "b">>
      left_upper  == upper(left_lower)
      left_letter == left_lower \o left_upper
      left_number == <<"1", "2", "3", "4", "5">>
      left_symbol == <<"!", "@", "#", "$", "%">>
      left_all    == left_letter \o left_number \o left_symbol
      right_lower  == <<"y", "u", "i", "o", "p", "h", "j", "k", "l", "n", "m">>
      right_upper  == upper(right_lower)
      right_letter == right_lower \o right_upper
      right_number == <<"6", "7", "8", "9", "0">>
      right_symbol == <<"^", "&", "*", "(", ")">>
      right_all    == right_letter \o right_number \o right_symbol
  IN  ("left-lower" :> left_lower) @@ ("left-upper" :> left_upper)
      @@ ("left-letter" :> left_letter) @@ ("left-number" :> left_number)
      @@ ("left-symbol" :> left_symbol) @@ ("left-all" :> left_all)
      @@ ("right-lower" :> right_lower) @@ ("right-upper" :> right_upper)
      @@ ("right-letter" :> right_letter) @@ ("right-number" :> right_number)
      @@ ("right-symbol" :> right_symbol) @@ ("right-all" :> right_all)
      @@ ("any-lower" :> left_lower \o right_lower)
      @@ ("any-upper" :> left_upper \o right_upper)
      @@ ("any-letter" :> left_letter \o right_letter)
      @@ ("any-number" :> left_number \o right_number)
      @@ ("any-symbol" :> left_symbol \o right_symbol)
      @@ ("any-all" :> left_all \o right_all)

NUM_SYM ==
  dict_zip(<<"1", "2", "3", "4", "5", "6", "7", "8", "9", "0">>,
           <<"!", "@", "#", "$", "%", "^", "&", "*", "(", ")">>)

\* The loop over enumerate(ALPHABET): each pass assigns the key 'to-number'
\* and the key 'to-symbol' of MOD10 itself, replacing the value held there.
RECURSIVE MOD10_loop(_, _)
MOD10_loop(m, char_index) ==
  IF char_index > Len(ALPHABET) THEN m
  ELSE MOD10_loop([m EXCEPT !["to-number"] = PyStr(str(char_index % 10)),
                            !["to-symbol"] = PyStr(<<NUM_SYM[str(char_index % 10)[1]]>>)],
                  char_index + 1)

MOD10 ==
  MOD10_loop(("to-number" :> PyDict(<<>>)) @@ ("to-symbol" :> PyDict(<<>>)), 1)

PHONE ==
  ("to-number" :> PyDict(dict_zip(ALPHABET,
      <<"2", "2", "2", "3", "3", "3", "4", "4", "4", "5", "5", "5", "6",
        "6", "6", "7", "7", "7", "7", "8", "8", "8", "9", "9", "9", "9">>)))
  @@ ("to-symbol" :> PyDict(dict_zip(ALPHABET,
      <<"@", "@", "@", "#", "#", "#", "$", "$", "$", "%", "%", "%", "^",
        "^", "^", "&", "&", "&", "&", "*", "*", "*", "(", "(", "(", "(">>)))

VERT_BASE ==
  << <<<<"z", "a", "q">>, "1">>, <<<<"x", "s", "w">>, "2">>, <<<<"c", "d", "e">>, "3">>,
     <<<<"v", "f", "r">>, "4">>, <<<<"b", "g", "t">>, "5">>, <<<<"n", "h", "y">>, "6">>,
     <<<<"m", "j", "u">>, "7">>, <<<<"k", "i">>, "8">>, <<<<"l", "o">>, "9">>,
     <<<<"p">>, "0">> >>

\* The nested loops over VERT_BASE: every character of a key gets the key's
\* digit, and that digit's symbol.
VERTICAL ==
  LET keyed == UNION {Range(VERT_BASE[j][1]) : j \in 1..Len(VERT_BASE)}
      digit(c) == VERT_BASE[CHOOSE j \in 1..Len(VERT_BASE) : c \in Range(VERT_BASE[j][1])][2]
  IN  ("to-number" :> PyDict([c \in keyed |-> digit(c)]))
      @@ ("to-symbol" :> PyDict([c \in keyed |-> NUM_SYM[digit(c)]]))

\* the mapping argument of get_pass, by name
MAPPINGS == ("MOD10" :> MOD10) @@ ("PHONE" :> PHONE) @@ ("VERTICAL" :> VERTICAL)

(***************************************************************************)
(* The functions of the module.                                            *)
(***************************************************************************)
\* check_hand: the settings (even, hand, next_hand) it may return; the '='
\* case draws random.random() < 0.5 to pick the first hand.
\* check_hand with '@' leaving the even flag as it is
check_hand_at_keeps_even(spec_char, even_, hand_, next_hand_) ==
  LET switched ==
        CASE spec_char = "=" -> {<<TRUE, "left", "right">>, <<TRUE, "right", "left">>}
          [] spec_char = "<" -> {<<FALSE, "left", next_hand_>>}
          [] spec_char = ">" -> {<<FALSE, "right", next_hand_>>}
          [] spec_char = "@" -> {<<even_, "any", next_hand_>>}
          [] OTHER -> {<<even_, hand_, next_hand_>>}
  IN  {IF t[1] THEN <<t[1], t[3], t[2]>> ELSE t : t \in switched}

\* check_hand without the swap of the hands at its end
check_hand_no_swap(spec_char, even_, hand_, next_hand_) ==
  CASE spec_char = "=" -> {<<TRUE, "left", "right">>, <<TRUE, "right", "left">>}
    [] spec_char = "<" -> {<<FALSE, "left", next_hand_>>}
    [] spec_char = ">" -> {<<FALSE, "right", next_hand_>>}
    [] spec_char = "@" -> {<<FALSE, "any", next_hand_>>}
    [] OTHER -> {<<even_, hand_, next_hand_>>}

check_hand(spec_char, even_, hand_, next_hand_) ==
  LET switched ==
        CASE spec_char = "=" -> {<<TRUE, "left", "right">>, <<TRUE, "right", "left">>}
          [] spec_char = "<" -> {<<FALSE, "left", next_hand_>>}
          [] spec_char = ">" -> {<<FALSE, "right", next_hand_>>}
          [] spec_char = "@" -> {<<FALSE, "any", next_hand_>>}
          [] OTHER -> {<<even_, hand_, next_hand_>>}
  IN  {IF t[1] THEN <<t[1], t[3], t[2]>> ELSE t : t \in switched}

\* next_char drawing from both hands whatever the hand is
next_char_any_hand(spec_char, chars, hand_) ==
  CASE spec_char = "#" -> {<<c>> : c \in Range(chars["any-number"])}
    [] spec_char = "$" -> {<<c>> : c \in Range(chars["any-symbol"])}
    [] spec_char = "A" -> {<<c>> : c \in Range(chars["any-upper"])}
    [] spec_char = "a" -> {<<c>> : c \in Range(chars["any-lower"])}
    [] spec_char = "L" -> {<<c>> : c \in Range(chars["any-letter"])}
    [] spec_char = "." -> {<<c>> : c \in Range(chars["any-all"])}
    [] OTHER -> {<<>>}

\* next_char: the strings ('' or one character) it may return
next_char(spec_char, chars, hand_) ==
  CASE spec_char = "#" -> {<<c>> : c \in Range(chars[hand_ \o "-number"])}
    [] spec_char = "$" -> {<<c>> : c \in Range(chars[hand_ \o "-symbol"])}
    [] spec_char = "A" -> {<<c>> : c \in Range(chars[hand_ \o "-upper"])}
    [] spec_char = "a" -> {<<c>> : c \in Range(chars[hand_ \o "-lower"])}
    [] spec_char = "L" -> {<<c>> : c \in Range(chars[hand_ \o "-letter"])}
    [] spec_char = "." -> {<<c>> : c \in Range(chars[hand_ \o "-all"])}
    [] OTHER -> {<<>>}

\* get_word with the even flag ignored
word_key_hand(even_, hand_) == hand_

\* get_word: the category the word is taken from
word_key(even_, hand_) == IF even_ THEN "even" ELSE hand_

\* get_word: the valid words
valid_words(words_, word_min_, word_max_, even_, hand_) ==
  SelectSeq(words_[word_key(even_, hand_)],
            LAMBDA word : word_min_ <= Len(word) /\ Len(word) <= word_max_)

\* get_word: the words it may return, title-cased; random.choice raises
\* IndexError on an empty sequence, which is the empty set here
get_word(words_, word_min_, word_max_, even_, hand_) ==
  {title(word) : word \in Range(valid_words(words_, word_min_, word_max_, even_, hand_))}

\* handed testing for an all-right word before it tests for no right character
handed_right_first(word) ==
  LET coded == [j \in 1..Len(word) |-> word[j] \in Range(CHARS["right-all"])]
      sum(bs) == Cardinality({j \in 1..Len(bs) : bs[j]})
      pairs == [ndx \in 1..(Len(coded) - 1) |-> coded[ndx] # coded[ndx + 1]]
  IN  IF sum(coded) = Len(coded) THEN "right"
      ELSE IF sum(coded) = 0 THEN "left"
      ELSE IF sum(pairs) = Len(pairs) THEN "even"
      ELSE "mixed"

\* handed
handed(word) ==
  LET coded == [j \in 1..Len(word) |-> word[j] \in Range(CHARS["right-all"])]
      sum(bs) == Cardinality({j \in 1..Len(bs) : bs[j]})
      pairs == [ndx \in 1..(Len(coded) - 1) |-> coded[ndx] # coded[ndx + 1]]
  IN  IF sum(coded) = 0 THEN "left"
      ELSE IF sum(coded) = Len(coded) THEN "right"
      ELSE IF sum(pairs) = Len(pairs) THEN "even"
      ELSE "mixed"

\* str.strip: leading and trailing whitespace removed
RECURSIVE strip(_)
strip(s) ==
  LET white == {" ", "\n", "\t", "\r"}
  IN  IF s = <<>> THEN s
      ELSE IF Head(s) \in white THEN strip(Tail(s))
      ELSE IF s[Len(s)] \in white THEN strip(SubSeq(s, 1, Len(s) - 1))
      ELSE s

\* load_words filing the word under its hand only
load_word_hand_only(words_, line) ==
  LET word == strip(line)
  IN  [words_ EXCEPT ![handed(word)] = Append(@, word)]

\* load_words: one pass of its loop over the lines of the file
load_word(words_, line) ==
  LET word == strip(line)
  IN  [words_ EXCEPT ![handed(word)] = Append(@, word), !["any"] = Append(@, word)]

\* load_words on a file given as the sequence of its lines
RECURSIVE load_lines(_, _)
load_lines(words_, lines) ==
  IF lines = <<>> THEN words_ ELSE load_lines(load_word(words_, Head(lines)), Tail(lines))

\* lines 299-300: the catalog before the first line is read
NO_WORDS == [key \in {"left", "right", "even", "mixed", "any"} |-> <<>>]

load_words(word_file) == load_lines(NO_WORDS, word_file)

\* force_char leaving a character without a mapping entry as it is
force_choices_keep(ch, mapping_, any_char) ==
  IF py_in(ch, mapping_)
  THEN (IF mapping_.type = "dict" THEN {mapping_.val[ch]} ELSE {"TypeError"})
  ELSE {ch}

\* force_char, one pass of its loop: the characters that may replace ch;
\* "TypeError" stands for the exception of indexing a str with a str
force_choices(ch, mapping_, any_char) ==
  IF py_in(ch, mapping_)
  THEN (IF mapping_.type = "dict" THEN {mapping_.val[ch]} ELSE {"TypeError"})
  ELSE Range(any_char)

\* force_char dropping the update of password
force_update_none(password_, index, char) == password_

\* force_char, one pass of its loop: the update of password
force_update(password_, index, char) ==
  slice_to(password_, index) \o <<char>> \o slice_from(password_, index + 1)

\* random.randrange(trunc + 2)
trunc_choices_wide(trunc_) == 0..(trunc_ + 1)

\* get_pass: the value drawn by random.randrange(trunc + 1)
trunc_choices(trunc_) == 0..trunc_

\* the index recorded without the - 1
forced_index_off(password_, word_max_) ==
  LET password_length == Len(password_) + word_max_ IN password_length

\* the index recorded from the word length before the token was counted
forced_index_before(password_, word_max_) ==
  LET password_length == Len(password_) + (word_max_ - 1) IN password_length - 1

\* get_pass: the index an N/n or S/s token records
forced_index(password_, word_max_) ==
  LET password_length == Len(password_) + word_max_ IN password_length - 1

(***************************************************************************)
(* The calls explored.                                                     *)
(***************************************************************************)
\* the characters of the specification language, and one outside it
WORD_LETTERS == {"W", "w", "N", "n", "S", "s"}

LITERALS == {"#", "$", "A", "a", "L", "."}

TOKENS == WORD_LETTERS \cup LITERALS \cup {"=", "<", ">", "@", ";", "x"}

\* word files, as their lines
WORD_FILES ==
  {<<<<"a">>,
       <<"w", "e">>,
       <<"n", "o">>,
       <<"i", "t">>,
       <<"t", "h", "e">>,
       <<"s", "t", "a", "r">>,
       <<"t", "h", "e", "y">>,
       <<"g", "r", "e", "a", "t">>,
       <<"w", "o", "r", "l", "d">>,
       <<"h", "e", "l", "l", "o">>,
       <<"a", "b", "s", "t", "r", "a", "c", "t">>,
       <<"c", "h", "o", "c", "o", "l", "a", "t", "e">>>>,
   <<<<"w", "e">>,
       <<"n", "o", "\n">>,
       <<"i", "t">>,
       <<"h", "e", "l", "l", "o">>,
       <<"c", "h", "o", "c", "o", "l", "a", "t", "e">>>>}

CATALOGS == {load_words(f) : f \in WORD_FILES}

\* the specifications of the demonstration at the end of the module
DEMO_SPECS ==
  {<<"W", "W", "W", "W", "W", "w", "w", "w", "$", "#", "#">>,
   <<"=", "W", "W", "W", "W", "W", "w", "w", "w", "$", "#", "#">>,
   <<"<", "W", "W", "W", "W", "W", "w", "w", "w", "$", "#", "#">>,
   <<">", "W", "W", "W", "W", "W", "w", "w", "w", "$", "#", "#">>,
   <<"N", "N", "N", "N">>,
   <<"<", "W", "W", "W", "W", "W", "w", "w", "w", ">", "$", "#", "#">>,
   <<"W", "W", "W", "W", ";", "S", "N", "N", "N", ";", "W", "W", "W", "W">>}

\* every string of at most n characters over cs
Strings(cs, n) == UNION {[1..m -> cs] : m \in 0..n}

\* the index lists a caller passes: at most one index, or one index twice
INDEX_LISTS ==
  {<<>>} \cup {<<x>> : x \in (0 - 2)..MaxIndex} \cup {<<x, x>> : x \in (0 - 2)..MaxIndex}

Call(s, w, m, n, y, t) ==
  [spec |-> s, words |-> w, mapping |-> m, to_number |-> n, to_symbol |-> y, trunc |-> t]

\* get_pass(spec, words, mapping = m): every short specification whose
\* literals are numbers and symbols, and each literal token alone
SHORT_CALLS ==
  {Call(s, w, m, <<>>, <<>>, 0) :
     s \in Strings(TOKENS \ {"A", "a", "L", "."}, MaxSpecLen) \cup {<<c>> : c \in LITERALS}
           \cup {<<"=", c>> : c \in LITERALS},
     w \in CATALOGS, m \in DOMAIN MAPPINGS}

\* get_pass(spec, words, mapping = m) on the demonstration's specifications
DEMO_CALLS ==
  {Call(s, w, m, <<>>, <<>>, 0) : s \in DEMO_SPECS, w \in CATALOGS, m \in DOMAIN MAPPINGS}

\* get_pass(spec, words, mapping = m, to_number = n, to_symbol = y)
FORCE_CALLS ==
  {Call(s, w, m, ny[1], ny[2], 0) :
     s \in {<<"W", "w">>, <<"<", "#">>, <<"N", "w">>}, w \in CATALOGS, m \in DOMAIN MAPPINGS,
     ny \in {p \in INDEX_LISTS \X INDEX_LISTS : Len(p[1]) + Len(p[2]) <= 2}}

\* get_pass(spec, words, mapping = m, trunc = t)
TRUNC_CALLS ==
  {Call(s, w, m, <<>>, <<>>, t) :
     s \in {<<"W", "w">>, <<"<", "#">>, <<"N", "s">>, <<"W", "W", "W", "$">>},
     w \in CATALOGS, m \in DOMAIN MAPPINGS, t \in 0..MaxTrunc}

\* get_pass(spec, words, mapping = m) on specifications of several word
\* segments
SEGMENT_CALLS ==
  {Call(s, w, m, <<>>, <<>>, 0) :
     s \in Strings({"W", "w", ";"}, MaxSpecLen + 2), w \in CATALOGS, m \in DOMAIN MAPPINGS}

CALLS == SHORT_CALLS \cup DEMO_CALLS \cup FORCE_CALLS \cup TRUNC_CALLS \cup SEGMENT_CALLS

(***************************************************************************)
(* get_pass as a state machine.                                            *)
(***************************************************************************)
NoError == [type |-> "", in |-> ""]

Raise(type, in) ==
  /\ pc' = "raised"
  /\ err' = [type |-> type, in |-> in]

\* the call, before its first statement
Init ==
  \E call \in CALLS :
    /\ spec = call.spec
    /\ words = call.words
    /\ mapping = call.mapping
    /\ to_number = call.to_number
    /\ to_symbol = call.to_symbol
    /\ trunc = call.trunc
    /\ pc = "start"
    /\ pos = 1
    /\ local_number = <<>>
    /\ local_symbol = <<>>
    /\ hand = "any"
    /\ next_hand = ""
    /\ even = FALSE
    /\ word_min = 0
    /\ word_max = 0
    /\ password = <<>>
    /\ fk = 1
    /\ err = NoError
    /\ stdout = <<>>

\* lines 176-184: spec[-1] raises IndexError on the empty string
Start ==
  /\ pc = "start"
  /\ IF spec = <<>>
     THEN /\ Raise("IndexError", "get_pass")
          /\ UNCHANGED spec
     ELSE /\ spec' = IF spec[Len(spec)] \in WORD_LETTERS THEN spec \o <<";">> ELSE spec
          /\ pc' = "loop"
          /\ UNCHANGED err
  /\ pos' = 1
  /\ local_number' = <<>>
  /\ local_symbol' = <<>>
  /\ hand' = "any"
  /\ next_hand' = ""
  /\ even' = FALSE
  /\ word_min' = 0
  /\ word_max' = 0
  /\ password' = <<>>
  /\ UNCHANGED <<words, mapping, to_number, to_symbol, trunc, fk, stdout>>

\* one pass of the loop for a word letter: lines 188-192 and 208-213
WordLetter ==
  /\ pc = "loop"
  /\ pos <= Len(spec)
  /\ spec[pos] \in WORD_LETTERS
  /\ LET char == spec[pos]
         new_max == word_max + 1
     IN  /\ word_min' = IF char \in {"W", "N", "S"} THEN word_min + 1 ELSE word_min
         /\ word_max' = new_max
         /\ local_number' = IF char \in {"N", "n"}
                            THEN Append(local_number, forced_index(password, new_max))
                            ELSE local_number
         /\ local_symbol' = IF char \in {"S", "s"}
                            THEN Append(local_symbol, forced_index(password, new_max))
                            ELSE local_symbol
  /\ pos' = pos + 1
  /\ UNCHANGED <<spec, words, mapping, to_number, to_symbol, trunc, pc, hand, next_hand,
                 even, password, fk, err, stdout>>

\* the word just appended never taken to end on the current hand
word_ends_on_hand_never(even_, password_, hand_) == FALSE

\* line 199: even-handed, and the word just appended ends on the current hand
word_ends_on_hand(even_, password_, hand_) ==
  even_ /\ password_[Len(password_)] \in Range(CHARS[hand_ \o "-all"])

\* one pass of the loop for any other character: lines 193-207
Boundary ==
  /\ pc = "loop"
  /\ pos <= Len(spec)
  /\ spec[pos] \notin WORD_LETTERS
  /\ LET char == spec[pos]
         flush == word_min # 0
         got == IF flush THEN get_word(words, word_min, word_max, even, hand) ELSE {<<>>}
     IN  IF got = {}
         THEN /\ Raise("IndexError", "get_word")
              /\ UNCHANGED <<pos, local_number, local_symbol, hand, next_hand, even,
                             word_min, word_max, password>>
         ELSE \E word \in got :
                LET with_word == password \o word
                    swap == flush /\ word_ends_on_hand(even, with_word, hand)
                    hand_1 == IF swap THEN next_hand ELSE hand
                    next_hand_1 == IF swap THEN hand ELSE next_hand
                IN  \E literal \in next_char(char, CHARS, hand_1) :
                    \E checked \in check_hand(char, even, hand_1, next_hand_1) :
                      /\ password' = with_word \o literal
                      /\ word_min' = IF flush THEN 0 ELSE word_min
                      /\ word_max' = IF flush THEN 0 ELSE word_max
                      /\ local_number' = IF flush THEN keep_below(local_number, Len(with_word))
                                         ELSE local_number
                      /\ local_symbol' = IF flush THEN keep_below(local_symbol, Len(with_word))
                                         ELSE local_symbol
                      /\ even' = checked[1]
                      /\ hand' = checked[2]
                      /\ next_hand' = checked[3]
                      /\ pos' = pos + 1
                      /\ UNCHANGED <<pc, err>>
  /\ UNCHANGED <<spec, words, mapping, to_number, to_symbol, trunc, fk, stdout>>

\* the list force_char is working through, its mapping and its any_char
force_indexes == IF pc = "force_number" THEN local_number ELSE local_symbol

force_mapping ==
  IF pc = "force_number" THEN MAPPINGS[mapping]["to-number"] ELSE MAPPINGS[mapping]["to-symbol"]

force_any_char == IF pc = "force_number" THEN CHARS["any-number"] ELSE CHARS["any-symbol"]

\* force_char is entered: it prints the password when there are indexes
force_enter(indexes) == IF indexes # <<>> THEN Append(stdout, password) ELSE stdout

\* the loop is over: lines 215-216, up to the first pass of force_char's loop
EndLoop ==
  /\ pc = "loop"
  /\ pos > Len(spec)
  /\ local_number' = local_number \o to_number
  /\ stdout' = force_enter(local_number \o to_number)
  /\ fk' = 1
  /\ pc' = "force_number"
  /\ UNCHANGED <<spec, words, mapping, to_number, to_symbol, trunc, pos, local_symbol,
                 hand, next_hand, even, word_min, word_max, password, err>>

\* one pass of force_char's loop: lines 146-157
ForceStep ==
  /\ pc \in {"force_number", "force_symbol"}
  /\ fk <= Len(force_indexes)
  /\ LET index == force_indexes[fk]
     IN  IF index >= Len(password)
         THEN /\ fk' = fk + 1
              /\ UNCHANGED <<pc, password, err>>
         ELSE IF index < 0 - Len(password)
         THEN /\ Raise("IndexError", "force_char")
              /\ UNCHANGED <<fk, password>>
         ELSE \E char \in force_choices(password[IF index < 0 THEN index + Len(password) + 1
                                                  ELSE index + 1],
                                        force_mapping, force_any_char) :
                IF char = "TypeError"
                THEN /\ Raise("TypeError", "force_char")
                     /\ UNCHANGED <<fk, password>>
                ELSE /\ password' = force_update(password, index, char)
                     /\ fk' = fk + 1
                     /\ UNCHANGED <<pc, err>>
  /\ UNCHANGED <<spec, words, mapping, to_number, to_symbol, trunc, pos, local_number,
                 local_symbol, hand, next_hand, even, word_min, word_max, stdout>>

\* force_char returns: lines 158 and 217-218 after the number pass, 219 after
\* the symbol pass
ForceReturn ==
  /\ pc \in {"force_number", "force_symbol"}
  /\ fk > Len(force_indexes)
  /\ IF pc = "force_number"
     THEN /\ local_symbol' = local_symbol \o to_symbol
          /\ stdout' = force_enter(local_symbol \o to_symbol)
          /\ pc' = "force_symbol"
     ELSE /\ pc' = "truncate"
          /\ UNCHANGED <<local_symbol, stdout>>
  /\ fk' = 1
  /\ UNCHANGED <<spec, words, mapping, to_number, to_symbol, trunc, pos, local_number,
                 hand, next_hand, even, word_min, word_max, password, err>>

\* lines 219-224
Truncate ==
  /\ pc = "truncate"
  /\ IF trunc # 0
     THEN \E drawn \in trunc_choices(trunc) :
            password' = IF drawn # 0 THEN slice_to(password, 0 - drawn) ELSE password
     ELSE UNCHANGED password
  /\ pc' = "returned"
  /\ UNCHANGED <<spec, words, mapping, to_number, to_symbol, trunc, pos, local_number,
                 local_symbol, hand, next_hand, even, word_min, word_max, fk, err, stdout>>

Next == Start \/ WordLetter \/ Boundary \/ EndLoop \/ ForceStep \/ ForceReturn \/ Truncate

Spec == Init /\ [][Next]_vars

(***************************************************************************)
(* load_words, one line of the word file at a time.  The file is any       *)
(* sequence of at most MaxLines lines.  A line is any string of at most    *)
(* MaxWordLen characters over a left-hand and a right-hand character, or   *)
(* one of a few lines with a line end, surrounding blanks, a character in  *)
(* neither hand set, an upper-case letter or a digit.                      *)
(***************************************************************************)
LINE_CHARS == {"a", "j"}

OTHER_LINES ==
  { <<"\n">>,
    <<"a", "j", "\n">>,
    <<" ", "j", "a", " ", "\n">>,
    <<"-", "\n">>,
    <<"a", "-", "\n">>,
    <<"-", "j", "\n">>,
    <<"j", "-", "a">>,
    <<"j", "-", "j", "\n">>,
    <<"A", "j", "\n">>,
    <<"6", "1", "\n">> }

LINES == Strings(LINE_CHARS, MaxWordLen) \cup OTHER_LINES

\* lines 299-300: the empty catalog; the variables of get_pass are not used
InitLoad ==
  /\ words = NO_WORDS
  /\ pc = "load"
  /\ spec = <<>>
  /\ mapping = "MOD10"
  /\ to_number = <<>>
  /\ to_symbol = <<>>
  /\ trunc = 0
  /\ pos = 1
  /\ local_number = <<>>
  /\ local_symbol = <<>>
  /\ hand = "any"
  /\ next_hand = ""
  /\ even = FALSE
  /\ word_min = 0
  /\ word_max = 0
  /\ password = <<>>
  /\ fk = 1
  /\ err = NoError
  /\ stdout = <<>>

\* lines 301-304: one pass of the loop, on the next line of the file
LoadWord ==
  /\ pc = "load"
  /\ Len(words["any"]) < MaxLines
  /\ \E line \in LINES : words' = load_word(words, line)
  /\ UNCHANGED <<spec, mapping, to_number, to_symbol, trunc, pc, pos, local_number,
                 local_symbol, hand, next_hand, even, word_min, word_max, password,
                 fk, err, stdout>>

\* line 305: the end of the file is reached and the catalog returned
LoadReturn ==
  /\ pc = "load"
  /\ pc' = "loaded"
  /\ UNCHANGED <<spec, words, mapping, to_number, to_symbol, trunc, pos, local_number,
                 local_symbol, hand, next_hand, even, word_min, word_max, password,
                 fk, err, stdout>>

NextLoad == LoadWord \/ LoadReturn

SpecLoad == InitLoad /\ [][NextLoad]_vars

(***************************************************************************)
(* Vocabulary of the properties.                                           *)
(***************************************************************************)
Returned == pc = "returned"

Raised == pc = "raised"

NonNegative(indexes) == \A j \in 1..Len(indexes) : indexes[j] >= 0

\* position p (counted from 0) of the password holds a character of cs
Holds(p, cs) == password[p + 1] \in Range(cs)

InRange(p) == 0 <= p /\ p < Len(password)

\* the step is a pass of the loop that appends a word
Flushes ==
  /\ pc = "loop" /\ pos <= Len(spec) /\ spec[pos] \notin WORD_LETTERS
  /\ word_min # 0 /\ pc' = "loop"

\* the word a flushing step appends, before the literal of the boundary token
FlushedWord ==
  SubSeq(password', Len(password) + 1,
         Len(password') - (IF spec[pos] \in LITERALS THEN 1 ELSE 0))

\* the word letters of s that end at position p, as a maximal run
RECURSIVE RunBefore(_, _)
RunBefore(s, p) ==
  IF p = 0 \/ s[p] \notin WORD_LETTERS THEN <<>> ELSE Append(RunBefore(s, p - 1), s[p])

Count(s, cs) == Cardinality({j \in 1..Len(s) : s[j] \in cs})

Titles(ws) == {title(w) : w \in Range(ws)}

SPEC_NNNN == <<"N", "N", "N", "N", ";">>

SPEC_WSNW ==
  <<"W", "W", "W", "W", ";", "S", "N", "N", "N", ";", "W", "W", "W", "W", ";">>

SPEC_EVEN == <<"=", "W", "W", "W", "W", "W", "w", "w", "w", "$", "#", "#">>

(***************************************************************************)
(* C1.  With no truncation and non-negative caller indexes, when get_pass  *)
(* returns, every position of the password that is in the number list and  *)
(* not in the symbol list holds a member of chars['any-number'], and every *)
(* position in the symbol list holds a member of chars['any-symbol'];      *)
(* get_pass('NNNN', ...) returns 4 characters of any-number.               *)
(***************************************************************************)
C1_ForcedPositionsInClass ==
  (Returned /\ trunc = 0 /\ NonNegative(to_number) /\ NonNegative(to_symbol)) =>
    /\ \A p \in Range(local_number) :
         (InRange(p) /\ p \notin Range(local_symbol)) => Holds(p, CHARS["any-number"])
    /\ \A p \in Range(local_symbol) : InRange(p) => Holds(p, CHARS["any-symbol"])
    /\ spec = SPEC_NNNN =>
         /\ Len(password) = 4
         /\ \A p \in 0..3 : Holds(p, CHARS["any-number"])

C1_Witness ==
  /\ Returned /\ spec = SPEC_NNNN /\ mapping = "MOD10"
  /\ local_number = <<0, 1, 2, 3>>
  /\ \A p \in 0..3 : Holds(p, CHARS["any-number"])

(***************************************************************************)
(* C2.  The word appended for a run of word letters holding an upper-case  *)
(* token has at least as many letters as the run has upper-case tokens and *)
(* at most as many as the run has tokens, whatever precedes the run.       *)
(***************************************************************************)
C2_WordLengthWithinRun ==
  [][Flushes =>
       LET run == RunBefore(spec, pos - 1)
       IN  /\ Count(run, {"W", "N", "S"}) <= Len(FlushedWord)
           /\ Len(FlushedWord) <= Len(run)]_vars

(***************************************************************************)
(* C3.  For a specification without word letters, the empty one included,  *)
(* with trunc = 0 (and no caller indexes), get_pass returns a password     *)
(* with one character per literal-producing token.                         *)
(***************************************************************************)
C3_LengthIsLiteralCount ==
  (Count(spec, WORD_LETTERS) = 0 /\ trunc = 0 /\ to_number = <<>> /\ to_symbol = <<>>) =>
    /\ ~Raised
    /\ Returned => Len(password) = Count(spec, LITERALS)

(***************************************************************************)
(* C4.  get_pass('WWWW;SNNN;WWWW', catalog, chars, MOD10) returns 12       *)
(* characters: a title-cased 4-letter word of the catalog, a symbol, three *)
(* numbers, a title-cased 4-letter word of the catalog; it does not raise  *)
(* when the catalog has a 4-letter word.                                   *)
(***************************************************************************)
C4_WordSymbolNumbersWord ==
  (spec = SPEC_WSNW /\ mapping = "MOD10") =>
    LET four == SelectSeq(words["any"], LAMBDA w : Len(w) = 4)
    IN  /\ (Raised => four = <<>>)
        /\ Returned =>
             /\ Len(password) = 12
             /\ SubSeq(password, 1, 4) \in Titles(four)
             /\ Holds(4, CHARS["any-symbol"])
             /\ \A p \in 5..7 : Holds(p, CHARS["any-number"])
             /\ SubSeq(password, 9, 12) \in Titles(four)

C4_Witness ==
  /\ Returned /\ spec = SPEC_WSNW /\ mapping = "MOD10"
  /\ SubSeq(password, 1, 4) = <<"S", "t", "a", "r">>
  /\ SubSeq(password, 9, 12) = <<"T", "h", "e", "y">>

(***************************************************************************)
(* C5.  A flushed word is drawn from words['even'] when even is set at the *)
(* flush and from words[hand] otherwise, even and hand being the values    *)
(* before the boundary token's own mode transition.                        *)
(***************************************************************************)
C5_WordFromActiveCategory ==
  [][Flushes => FlushedWord \in Titles(words[IF even THEN "even" ELSE hand])]_vars

C5_Witness ==
  /\ Returned /\ spec = SPEC_EVEN
  /\ SubSeq(password, 1, 5) = <<"W", "o", "r", "l", "d">>

(***************************************************************************)
(* C6.  When no word of the active category has a length within the        *)
(* bounds, get_pass ends with a NoEligibleWord failure naming the category *)
(* and the bounds.                                                         *)
(***************************************************************************)
C6_NoEligibleWordIsExplicit ==
  (Raised /\ err.in = "get_word") =>
    /\ err.type = "NoEligibleWord"
    /\ {"category", "minLen", "maxLen"} \subseteq DOMAIN err

(***************************************************************************)
(* C7.  With non-negative caller indexes, get_pass returns or fails in a   *)
(* word flush that found no eligible word: nothing else raises.            *)
(***************************************************************************)
C7_OnlyWordFlushFails ==
  (Raised /\ NonNegative(to_number) /\ NonNegative(to_symbol)) => err.in = "get_word"

(***************************************************************************)
(* C8.  Truncation returns a prefix of the forced password with k          *)
(* characters removed, 0 <= k <= trunc; trunc = 0 returns the forced       *)
(* password.                                                               *)
(***************************************************************************)
C8_TruncationRemovesAtMostTrunc ==
  [][pc = "truncate" =>
       /\ \E k \in 0..trunc :
            /\ k <= Len(password)
            /\ password' = SubSeq(password, 1, Len(password) - k)
       /\ trunc = 0 => password' = password]_vars

C8_Witness ==
  /\ Returned /\ trunc = 2 /\ spec = <<"W", "W", "W", "$">>
  /\ password = <<"T", "h">>

(***************************************************************************)
(* C9.  Forcing an in-range index that the same pass has forced before     *)
(* leaves the character the first forcing put there (stated for the two    *)
(* mappings that are dicts of letters).                                    *)
(***************************************************************************)
ForcesAgain ==
  /\ pc \in {"force_number", "force_symbol"} /\ fk <= Len(force_indexes)
  /\ InRange(force_indexes[fk])
  /\ \E j \in 1..(fk - 1) : force_indexes[j] = force_indexes[fk]
  /\ pc' = pc

C9_ForcingIsIdempotent ==
  [][(ForcesAgain /\ mapping \in {"PHONE", "VERTICAL"}) => password'[force_indexes[fk] + 1] = password[force_indexes[fk] + 1]]_vars

(***************************************************************************)
(* C9, amended.  Forcing an in-range index that the same pass has forced   *)
(* before leaves a member of any_char there, as the first forcing did, and *)
(* changes no other character; the character itself may differ.            *)
(***************************************************************************)
C9_ForcingAgainStaysInClass ==
  [][ForcesAgain =>
       /\ password[force_indexes[fk] + 1] \in Range(force_any_char)
       /\ password'[force_indexes[fk] + 1] \in Range(force_any_char)
       /\ Len(password') = Len(password)
       /\ \A p \in 1..Len(password) :
            p # force_indexes[fk] + 1 => password'[p] = password[p]]_vars

C9_Witness ==
  /\ pc = "force_number" /\ fk = 3 /\ mapping = "PHONE"
  /\ local_number = <<1, 1>>
  /\ password = <<"W", "7">>

(***************************************************************************)
(* C10.  Each mapping maps every lower-case letter to one digit under      *)
(* 'to-number' and to that digit's shifted symbol under 'to-symbol'; MOD10 *)
(* maps the letter at alphabet position p to the digit p mod 10.           *)
(***************************************************************************)
C10_MappingsAreTotal ==
  LET m == MAPPINGS[mapping]
  IN  /\ m["to-number"].type = "dict"
      /\ m["to-symbol"].type = "dict"
      /\ \A p \in 1..Len(ALPHABET) :
           LET c == ALPHABET[p]
           IN  /\ c \in DOMAIN m["to-number"].val
               /\ c \in DOMAIN m["to-symbol"].val
               /\ m["to-number"].val[c] \in Range(DIGITS)
               /\ m["to-symbol"].val[c] = NUM_SYM[m["to-number"].val[c]]
               /\ mapping = "MOD10" => <<m["to-number"].val[c]>> = str(p % 10)

(***************************************************************************)
(* Vocabulary of the properties of load_words and handed.                  *)
(***************************************************************************)
HANDS == {"left", "right", "even", "mixed"}

RIGHT_HAND == Range(CHARS["right-all"])

RightTyped(c) == c \in RIGHT_HAND

NoRight(w) == \A j \in 1..Len(w) : ~RightTyped(w[j])

AllRight(w) == w # <<>> /\ \A j \in 1..Len(w) : RightTyped(w[j])

Alternates(w) ==
  /\ \E j \in 1..Len(w) : RightTyped(w[j])
  /\ \E j \in 1..Len(w) : ~RightTyped(w[j])
  /\ \A j \in 1..(Len(w) - 1) : RightTyped(w[j]) # RightTyped(w[j + 1])

Occurrences(ws, w) == Cardinality({j \in 1..Len(ws) : ws[j] = w})

(***************************************************************************)
(* C11.  Every word load_words filed under the name handed gave it is      *)
(* under 'left' iff none of its characters is right-hand, under 'right'    *)
(* iff it is non-empty and all its characters are right-hand, under 'even' *)
(* iff both hands occur and every two adjacent characters differ in hand,  *)
(* and under 'mixed' iff none of the three; a character in neither hand    *)
(* set counts as not right-hand, and the empty word is 'left'.             *)
(***************************************************************************)
C11_HandedClassifies ==
  \A key \in HANDS : \A w \in Range(words[key]) :
    /\ key = "left" <=> NoRight(w)
    /\ key = "right" <=> AllRight(w)
    /\ key = "even" <=> Alternates(w)
    /\ key = "mixed" <=> ~NoRight(w) /\ ~AllRight(w) /\ ~Alternates(w)

\* the empty word is filed beside a mixed word with a character of neither hand
C11_Witness ==
  /\ pc = "loaded"
  /\ <<>> \in Range(words["left"])
  /\ <<"j", "-", "a">> \in Range(words["mixed"])

(***************************************************************************)
(* C12.  After any number of lines, every loaded word is in words['any']   *)
(* and in exactly one of the four hand lists, the one handed names, as     *)
(* often there as in words['any'], and words['any'] is as long as the four *)
(* hand lists together.                                                    *)
(***************************************************************************)
C12_CatalogPartition ==
  /\ \A key \in HANDS : \A w \in Range(words[key]) : w \in Range(words["any"])
  /\ \A w \in Range(words["any"]) :
        LET named == handed(w)
        IN  /\ \A key \in HANDS : w \in Range(words[key]) <=> key = named
            /\ Occurrences(words[named], w) = Occurrences(words["any"], w)
  /\ Len(words["any"])
       = Len(words["left"]) + Len(words["right"]) + Len(words["even"])
         + Len(words["mixed"])

\* the same word read twice, once with its line end, makes two entries
C12_Witness ==
  /\ pc = "load"
  /\ words["any"] = <<<<"a", "j">>, <<"a", "j">>>>
  /\ words["even"] = words["any"]

(***************************************************************************)
(* C13.  When the pass over a spec whose last token is a word letter has   *)
(* ended and forcing has not started, the accumulator (word_min, word_max) *)
(* is (0, 0) and the password holds more than the literals of the spec: a  *)
(* word for the trailing segment was appended.  (Start has put the ';'     *)
(* behind the last word letter.)                                           *)
(***************************************************************************)
C13_TrailingSegmentFlushed ==
  ( /\ pc = "force_number" /\ fk = 1
    /\ Len(spec) >= 2
    /\ spec[Len(spec)] = ";"
    /\ spec[Len(spec) - 1] \in WORD_LETTERS )
  => /\ word_min = 0 /\ word_max = 0
     /\ Len(password) > Count(spec, LITERALS)

(***************************************************************************)
(* Vocabulary of the properties of literal tokens.                         *)
(***************************************************************************)
\* the step is a pass of the loop for a literal token
LiteralStep ==
  pc = "loop" /\ pos <= Len(spec) /\ spec[pos] \in LITERALS /\ pc' = "loop"

Kind(token) ==
  CASE token = "#" -> "number"
    [] token = "$" -> "symbol"
    [] token = "A" -> "upper"
    [] token = "a" -> "lower"
    [] token = "L" -> "letter"
    [] token = "." -> "all"

\* the literal a literal step appends
Literal == password'[Len(password')]

\* the step flushes a word in even-handed mode that ends on the current hand
WordSwaps ==
  /\ Flushes /\ even
  /\ FlushedWord[Len(FlushedWord)] \in Range(CHARS[hand \o "-all"])

\* hand and next_hand when the token is reached, after any word flush
HandAtToken == IF WordSwaps THEN next_hand ELSE hand

NextHandAtToken == IF WordSwaps THEN hand ELSE next_hand

(***************************************************************************)
(* C14, as claimed.  In even-handed mode the literal of a literal token is *)
(* drawn from the hand that was next_hand when the token was reached       *)
(* (after any word flush): the swap of the hands comes before the draw.    *)
(***************************************************************************)
C14_SwapBeforeLiteral ==
  [][LiteralStep /\ even
       => Literal \in Range(CHARS[NextHandAtToken \o "-" \o Kind(spec[pos])])]_vars

(***************************************************************************)
(* C14, amended.  The literal of a literal token is drawn from the hand    *)
(* that was hand when the token was reached (after any word flush), and    *)
(* the transition of the token comes after the draw: in even-handed mode   *)
(* hand and next_hand are swapped for the token that follows.              *)
(***************************************************************************)
C14_LiteralBeforeSwap ==
  [][LiteralStep
       => /\ Literal \in Range(CHARS[HandAtToken \o "-" \o Kind(spec[pos])])
          /\ even => /\ even'
                      /\ hand' = NextHandAtToken
                      /\ next_hand' = HandAtToken]_vars

\* the '$' behind the word of the even-handed demonstration has been drawn
C14_Witness ==
  /\ pc = "loop" /\ spec = SPEC_EVEN /\ pos = 11
  /\ even
  /\ password[Len(password)] \in Range(CHARS[next_hand \o "-symbol"])

\* the hand that types a character
HandOfChar(c) ==
  IF c \in Range(CHARS["left-all"]) THEN "left"
  ELSE IF c \in Range(CHARS["right-all"]) THEN "right"
  ELSE "neither"

\* the character of the password before the literal a literal step appends
BeforeLiteral == password'[Len(password') - 1]

(***************************************************************************)
(* C15.  In even-handed mode, the literal of a token that directly follows *)
(* a literal token or a flushed word segment is typed by the hand opposite *)
(* to the hand of the password character before it (the previous literal   *)
(* or the last character of the word), that character being typed by the   *)
(* left or the right hand.                                                 *)
(***************************************************************************)
C15_LiteralAlternates ==
  [][( /\ LiteralStep /\ even
       /\ Flushes \/ (pos > 1 /\ spec[pos - 1] \in LITERALS)
       /\ Len(password') >= 2
       /\ HandOfChar(BeforeLiteral) \in {"left", "right"} )
     => {HandOfChar(Literal), HandOfChar(BeforeLiteral)} = {"left", "right"}]_vars

\* the two '#' of the even-handed demonstration fall on different hands
C15_Witness ==
  /\ pc = "loop" /\ spec = SPEC_EVEN /\ pos = 13
  /\ even
  /\ HandOfChar(password[Len(password)]) # HandOfChar(password[Len(password) - 1])
  /\ HandOfChar(password[Len(password) - 2]) = HandOfChar(password[Len(password)])

\* the step is a pass of the loop for a word letter
WordLetterStep == pc = "loop" /\ pos <= Len(spec) /\ spec[pos] \in WORD_LETTERS

(***************************************************************************)
(* C16.  A pass for a word letter leaves the password and even, hand and   *)
(* next_hand as they are; it raises word_max by 1 and, for an upper-case   *)
(* letter, word_min by 1; N and n append the one index                     *)
(* len(password) + word_max - 1 (word_max as raised) to the number list,   *)
(* S and s to the symbol list, and the other list is left as it is.        *)
(***************************************************************************)
C16_WordLetterFrame ==
  [][WordLetterStep
       => /\ password' = password
          /\ even' = even /\ hand' = hand /\ next_hand' = next_hand
          /\ word_max' = word_max + 1
          /\ word_min' = word_min + (IF spec[pos] \in {"W", "N", "S"} THEN 1 ELSE 0)
          /\ local_number'
               = IF spec[pos] \in {"N", "n"}
                 THEN Append(local_number, Len(password) + word_max' - 1)
                 ELSE local_number
          /\ local_symbol'
               = IF spec[pos] \in {"S", "s"}
                 THEN Append(local_symbol, Len(password) + word_max' - 1)
                 ELSE local_symbol]_vars

\* 'WWWW;SN' has been read: the S recorded 4 and the N recorded 5
C16_Witness ==
  /\ pc = "loop" /\ spec = SPEC_WSNW /\ pos = 8
  /\ Len(password) = 4
  /\ word_min = 2 /\ word_max = 2
  /\ local_symbol = <<4>> /\ local_number = <<5>>

\* the step is a pass of the loop for a character that is no word letter
BoundaryStep ==
  pc = "loop" /\ pos <= Len(spec) /\ spec[pos] \notin WORD_LETTERS /\ pc' = "loop"

\* what the most recent mode token among the first p tokens of s asks for
RECURSIVE ModeHand(_, _)
ModeHand(s, p) ==
  IF p = 0 THEN "any"
  ELSE CASE s[p] = "<" -> "left"
         [] s[p] = ">" -> "right"
         [] s[p] = "@" -> "any"
         [] s[p] = "=" -> "even"
         [] OTHER -> ModeHand(s, p - 1)

(***************************************************************************)
(* C17.  A pass for a character that is no word letter appends to the      *)
(* password the word of the segment it ends, if there is one, and then one *)
(* character for a literal token and nothing for ; = < > @ or a character  *)
(* outside the token table.  Unless the most recent mode token is '=',     *)
(* even is false and the character of a literal token is a member of       *)
(* chars[hand + '-' + kind] for the kind of the token and the hand of the  *)
(* most recent mode token: left behind '<', right behind '>', any behind   *)
(* '@' and at the start.                                                   *)
(***************************************************************************)
C17_LiteralInClass ==
  [][BoundaryStep
       => LET own == IF spec[pos] \in LITERALS THEN 1 ELSE 0
              asked == ModeHand(spec, pos - 1)
          IN  /\ SubSeq(password', 1, Len(password)) = password
              /\ Len(password') = Len(password) + Len(FlushedWord) + own
              /\ IF Flushes THEN FlushedWord \in Titles(words["any"])
                            ELSE FlushedWord = <<>>
              /\ asked # "even"
                   => /\ ~even /\ hand = asked
                      /\ spec[pos] \in LITERALS
                           => Literal \in Range(CHARS[asked \o "-" \o Kind(spec[pos])])]_vars

\* '<#' has been read and gave a left-hand digit
C17_Witness ==
  /\ pc = "loop" /\ spec = <<"<", "#">> /\ pos = 3
  /\ hand = "left" /\ ~even
  /\ Len(password) = 1
  /\ password[1] \in Range(CHARS["left-number"])

\* the indexes the word letters have recorded and the flushes have kept
Recorded(numbers, symbols) == Range(numbers) \cup Range(symbols)

(***************************************************************************)
(* C18.  An index recorded by N, n, S or s lies at or behind the end of    *)
(* the password as it is when the token is read, and after every pass that *)
(* ends a segment each recorded index that addresses a character of the    *)
(* password addresses a character of a flushed word: none addresses the    *)
(* literal the pass has just appended.  So an index that is still in the   *)
(* number or symbol list when forcing starts lies inside the word of its   *)
(* own segment and no literal is overwritten.                              *)
(***************************************************************************)
C18_RecordedIndexInsideWord ==
  [][/\ WordLetterStep
          => \A index \in Recorded(local_number', local_symbol')
                           \ Recorded(local_number, local_symbol) :
               index >= Len(password)
     /\ LiteralStep
          => \A index \in Recorded(local_number', local_symbol') :
               index # Len(password') - 1]_vars

KINDS == {"number", "symbol", "upper", "lower", "letter", "all"}

(***************************************************************************)
(* C19.  In every state of a call of get_pass, hand is 'left', 'right' or  *)
(* 'any', and when even is true hand and next_hand are 'left' and 'right'  *)
(* in one order or the other; so hand + '-' + kind is a key of the         *)
(* character table for every kind, and the key get_word uses ('even' when  *)
(* even is true, hand otherwise) is a key of the word catalog.             *)
(***************************************************************************)
C19_HandStateWellFormed ==
  /\ hand \in {"left", "right", "any"}
  /\ even => {hand, next_hand} = {"left", "right"}
  /\ \A kind \in KINDS : (hand \o "-" \o kind) \in DOMAIN CHARS
  /\ word_key(even, hand) \in DOMAIN words

\* even-handed mode with the right hand next, a left-hand literal typed
C19_Witness ==
  /\ pc = "loop" /\ even
  /\ hand = "right" /\ next_hand = "left"
  /\ password # <<>>
  /\ password[Len(password)] \in Range(CHARS["left-all"])

\* the step is a pass of force_char's loop
ForcePass == pc \in {"force_number", "force_symbol"} /\ fk <= Len(force_indexes)

\* the positions of the password, counted from 1, that index addresses
Addressed(index) ==
  {p \in 1..Len(password) : p - 1 = index \/ p - 1 = index + Len(password)}

(***************************************************************************)
(* C20.  Under a mapping that is a dictionary, a pass of force_char for    *)
(* any integer index leaves the password at its length and changes it at   *)
(* most at the position the index addresses; a pass for an index that      *)
(* addresses no character of the password changes nothing and goes on to   *)
(* the next index.                                                         *)
(***************************************************************************)
C20_ForceCharKeepsLength ==
  [][ForcePass /\ mapping \in {"PHONE", "VERTICAL"}
       => LET index == force_indexes[fk]
          IN  /\ pc' = pc
                   => /\ Len(password') = Len(password)
                      /\ \A p \in 1..Len(password) :
                            password'[p] # password[p] => p \in Addressed(index)
              /\ Addressed(index) = {}
                   => password' = password /\ pc' = pc /\ fk' = fk + 1]_vars

====
